---- MODULE Spec2Model ----
(***************************************************************************)
(* Model of the download job lifecycle of app.py: the registry             *)
(* active_downloads, the DownloadProgress records, the worker thread       *)
(* download_video_thread with its progress hook, the per-job deferred      *)
(* cleanup thread, the /cancel and /cleanup handlers, and the metadata     *)
(* retry loop get_video_info_with_retry.                                   *)
(*                                                                         *)
(* Threads interleave between Python statements: every attribute write of  *)
(* a handler is one step, labelled with the source line it models. A step  *)
(* that touches nothing another thread can see (mkdtemp, the return of     *)
(* extract_info, the listing of the temporary directory, the end of a      *)
(* sleep, the iteration of a copied list) is joined to the shared access   *)
(* next to it. The attributes current_step, title, quality and size are    *)
(* written but never read by the code modelled here and are left out.      *)
(* uuid4 identifiers are taken to be distinct in every specification but   *)
(* SpecCollide, which lets the 8-character prefix of a uuid4 repeat.       *)
(***************************************************************************)
EXTENDS Integers, Sequences, FiniteSets, TLC

\* ------------------------------------------------------------------ bounds
NJobs == 1            \* submissions in one behaviour
MaxSamples == 2       \* progress-hook calls per download
MaxCancels == 1       \* /cancel requests in one behaviour
MaxSweeps == 1        \* /cleanup requests in one behaviour
MaxTicks == 1         \* clock advances in one behaviour
MaxFetches == 1       \* /get_file requests in one behaviour
SampleTotal == 4      \* the byte total carried by a hook sample, when known

\* ------------------------------------------------------- program constants
CleanupDelay == 300       \* time.sleep(300) of the deferred cleanup
SweepThreshold == 3600    \* "older than 1 hour" of /cleanup
DownloadCap == 90         \* min(90, percent)
FinishedProgress == 95    \* progress on the 'finished' signal
NumConfigs == 3           \* len(configs_to_try)

\* One clock advance: long enough for the deferred cleanup to wake up and for a
\* record started before it to exceed the sweep threshold.
TimeStep == SweepThreshold + CleanupDelay

NSlots == NJobs + 1       \* SpecCollide makes one submission more than Spec
Jobs == 1..NSlots
Ids == 1..NJobs           \* the identifiers uuid4 hands out, all distinct
NoJob == 0
NoId == 0
None == -1                \* Python None for start_time / file_path
NoErr == "None"
Errs == {"e1", "e2"}      \* messages of the exceptions the collaborators raise
NoFileErr == "No video file found after download"
KeyErr == "KeyError"

Terminal == {"completed", "error", "cancelled"}

VARIABLES
  now,        \* wall clock, seconds
  active_downloads, \* the registry: id -> index of the record object, or NoJob
  obj,        \* the DownloadProgress objects, one per submission
  nsub,       \* submissions so far
  jid,        \* per job: its download_id, NoId before the submission
  pc,         \* per job: position of its worker thread
  wobj,       \* per job: the worker's local `progress` reference
  werr,       \* per job: the exception the worker's except clause caught
  wdied,      \* per job: the worker thread ended with an uncaught exception
  tmp,        \* per job: the private temporary directory
  disk,       \* final paths that exist in the download folder (keyed by id)
  hd,         \* per job: the sample `d` of the running hook call
  hobj,       \* per job: the hook's local `progress` reference
  nsamp,      \* per job: hook calls so far
  cpc,        \* per job: position of the deferred cleanup thread
  cwake,      \* per job: earliest wake-up time of the cleanup's sleep
  cobj,       \* per job: the cleanup's local `progress` reference
  cdied,      \* per job: the cleanup thread ended with an uncaught exception
  kpc, kid, ncancel, kres,  \* the /cancel request in flight
  spc, skeys, sid, sobj, snow, cleaned, nsweep, sres, \* the /cleanup request
  \* history variables of the claims
  termAt,     \* per job: time its record last entered a terminal state
  cancelDl,   \* per job: a cancel was written while its state was downloading
  dlOk,       \* per job: the transfer reported success after such a cancel
  dlAttempts, \* per job: download attempts made
  dlErr,      \* per job: errors of the failed download attempts, in order
  errSrc,     \* per job: the step whose failure the except clause handles
  everCompleted, \* per job: the worker wrote state completed
  evictedBy,  \* per job: who removed its record ("", "timer", "sweep")
  rpc, rexc, rattempt, rslept, routcomes, rresult, rlog, \* the retry loop
  fpc, fid, fobj, nfetch, fres  \* the /get_file request in flight

wvars == <<pc, wobj, werr, wdied, tmp, hd, hobj, nsamp>>
cvars == <<cpc, cwake, cobj, cdied>>
kvars == <<kpc, kid, ncancel, kres>>
svars == <<spc, skeys, sid, sobj, snow, cleaned, nsweep, sres>>
gvars == <<cancelDl, dlOk, dlAttempts, dlErr, errSrc, everCompleted>>
rvars == <<rpc, rexc, rattempt, rslept, routcomes, rresult, rlog>>
fvars == <<fpc, fid, fobj, nfetch, fres>>
vars == <<now, active_downloads, obj, nsub, jid, wvars, disk, cvars, kvars, svars,
          termAt, gvars, evictedBy, rvars, fvars>>

\* ------------------------------------------------------------- the record
\* DownloadProgress.__init__
DownloadProgress ==
  [status |-> "pending", progress |-> 0, message |-> "", file_path |-> None,
   error |-> NoErr, start_time |-> None]

Min(a, b) == IF a < b THEN a ELSE b

\* A write of the status attribute of object o; termAt records the time the
\* record entered a terminal state.
SetStatus(o, s) ==
  /\ obj' = [obj EXCEPT ![o].status = s]
  /\ termAt' = [termAt EXCEPT ![o] =
                  IF s \in Terminal /\ obj[o].status \notin Terminal THEN now
                  ELSE IF s \notin Terminal THEN None ELSE @]

SetField(o, f, v) ==
  /\ obj' = [obj EXCEPT ![o][f] = v]
  /\ UNCHANGED termAt

Goto(j, l) == pc' = [pc EXCEPT ![j] = l]

\* What the threads other than job workers own.
OthersUnchanged == UNCHANGED <<now, nsub, jid, cvars, kvars, svars, evictedBy, rvars, fvars>>

\* ---------------------------------------------------------------- SubmitJob
\* start_download: a fresh identifier, a pending record registered under it,
\* and the worker thread started.
start_download(id) ==
  /\ nsub < NJobs
  /\ \A j \in Jobs : jid[j] # id
  /\ LET j == nsub + 1 IN
       /\ nsub' = j
       /\ jid' = [jid EXCEPT ![j] = id]
       /\ obj' = [obj EXCEPT ![j] = DownloadProgress]
       /\ active_downloads' = [active_downloads EXCEPT ![id] = j]
       /\ pc' = [pc EXCEPT ![j] = "w262"]
  /\ UNCHANGED <<now, wobj, werr, wdied, tmp, hd, hobj, nsamp, disk, cvars,
                 kvars, svars, termAt, gvars, evictedBy, rvars, fvars>>

\* start_download when str(uuid.uuid4())[:8] may be any identifier, one of a
\* registered job included: line 396 stores the new record under it unchecked.
start_download_any(id) ==
  /\ nsub < NSlots
  /\ LET j == nsub + 1 IN
       /\ nsub' = j
       /\ jid' = [jid EXCEPT ![j] = id]
       /\ obj' = [obj EXCEPT ![j] = DownloadProgress]
       /\ active_downloads' = [active_downloads EXCEPT ![id] = j]
       /\ pc' = [pc EXCEPT ![j] = "w262"]
  /\ UNCHANGED <<now, wobj, werr, wdied, tmp, hd, hobj, nsamp, disk, cvars,
                 kvars, svars, termAt, gvars, evictedBy, rvars, fvars>>

\* ------------------------------------------------------------------ Worker
\* An exception inside the try block: control goes to the except clause.
Raise(j, e, src) ==
  /\ werr' = [werr EXCEPT ![j] = e]
  /\ errSrc' = [errSrc EXCEPT ![j] = src]
  /\ Goto(j, "w354")

\* line 262: progress = active_downloads[download_id]
W262(j) ==
  /\ pc[j] = "w262"
  /\ IF active_downloads[jid[j]] # NoJob
       THEN /\ wobj' = [wobj EXCEPT ![j] = active_downloads[jid[j]]]
            /\ Goto(j, "w263")
            /\ UNCHANGED <<werr, errSrc>>
       ELSE /\ Raise(j, KeyErr, "lookup")
            /\ UNCHANGED wobj
  /\ UNCHANGED <<active_downloads, obj, termAt, wdied, tmp, hd, hobj, nsamp, disk,
                 cancelDl, dlOk, dlAttempts, dlErr, everCompleted>>
  /\ OthersUnchanged

\* A worker step that writes one attribute (not the status) of the worker's
\* record and moves on.
WWrite(j, from, f, v, to) ==
  /\ pc[j] = from
  /\ SetField(wobj[j], f, v)
  /\ Goto(j, to)
  /\ UNCHANGED <<active_downloads, wobj, werr, wdied, tmp, hd, hobj, nsamp, disk, gvars>>
  /\ OthersUnchanged

\* line 263: progress.start_time = datetime.now()
W263(j) == WWrite(j, "w263", "start_time", now, "w264")

\* line 264: progress.status = "starting"
W264(j) ==
  /\ pc[j] = "w264"
  /\ SetStatus(wobj[j], "starting")
  /\ Goto(j, "w266")
  /\ UNCHANGED <<active_downloads, wobj, werr, wdied, tmp, hd, hobj, nsamp, disk, gvars>>
  /\ OthersUnchanged

\* line 266: progress.message = "Initializing download..."
W266(j) == WWrite(j, "w266", "message", "Initializing download...", "w267")

\* lines 267-270: progress.progress = 5, then temp_dir = tempfile.mkdtemp(),
\* which only the worker sees
W267(j) ==
  /\ pc[j] = "w267"
  /\ SetField(wobj[j], "progress", 5)
  /\ tmp' = [tmp EXCEPT ![j] = "empty"]
  /\ Goto(j, "w313")
  /\ UNCHANGED <<active_downloads, wobj, werr, wdied, hd, hobj, nsamp, disk, gvars>>
  /\ OthersUnchanged

\* line 313: progress.message = "Getting video details..."
W313(j) == WWrite(j, "w313", "message", "Getting video details...", "w314")

\* lines 314-317: progress.progress = 10, then info = ydl.extract_info(url,
\* download=False), one call with no retry and no shared state: it returns the
\* metadata or the step fails with an exception.
W314(j) ==
  /\ pc[j] = "w314"
  /\ SetField(wobj[j], "progress", 10)
  /\ \/ /\ Goto(j, "w320")
        /\ UNCHANGED <<werr, errSrc>>
     \/ \E e \in Errs : Raise(j, e, "metadata")
  /\ UNCHANGED <<active_downloads, wobj, wdied, tmp, hd, hobj, nsamp, disk,
                 cancelDl, dlOk, dlAttempts, dlErr, everCompleted>>
  /\ OthersUnchanged

\* line 320: progress.message = "Beginning download process..."
W320(j) == WWrite(j, "w320", "message", "Beginning download process...", "w321")

\* line 321: progress.progress = 15; the next statement is ydl.download([url]),
\* the one download attempt of the worker.
W321(j) ==
  /\ pc[j] = "w321"
  /\ SetField(wobj[j], "progress", 15)
  /\ Goto(j, "w324")
  /\ dlAttempts' = [dlAttempts EXCEPT ![j] = @ + 1]
  /\ UNCHANGED <<active_downloads, wobj, werr, wdied, tmp, hd, hobj, nsamp, disk,
                 cancelDl, dlOk, dlErr, errSrc, everCompleted>>
  /\ OthersUnchanged

\* ----------------------------------------------------------- progress hook
\* The samples yt-dlp hands to the hook: a 'downloading' sample carries
\* total_bytes, downloaded_bytes, total_bytes_estimate and speed (0 stands for
\* a missing or zero entry, both falsy), and 'finished' carries nothing used.
NoSample == [status |-> "none", total_bytes |-> 0, downloaded_bytes |-> 0,
             total_bytes_estimate |-> 0, speed |-> 0]
FinishedSample == [NoSample EXCEPT !.status = "finished"]
Samples ==
  [status : {"downloading"}, total_bytes : {0, SampleTotal},
   downloaded_bytes : {0, 1, SampleTotal}, total_bytes_estimate : {0, SampleTotal},
   speed : {0, 1}]
  \cup {FinishedSample}

\* lines 241/245: percent = (downloaded / total) * 100. The sample totals divide
\* 100 * downloaded, so the quotient is the exact value Python computes.
Percent(downloaded, total) == (downloaded * 100) \div total

\* A hook that stores the percentage as it is.
HookProgressUncapped(d, cur) ==
  IF d.total_bytes # 0 /\ d.downloaded_bytes # 0
    THEN Percent(d.downloaded_bytes, d.total_bytes)
  ELSE IF d.total_bytes_estimate # 0
    THEN Percent(d.downloaded_bytes, d.total_bytes_estimate)
  ELSE cur

\* lines 240-247: the value the hook stores in progress.progress for sample d
\* when the stored value is cur.
HookProgress(d, cur) ==
  IF d.total_bytes # 0 /\ d.downloaded_bytes # 0
    THEN Min(DownloadCap, Percent(d.downloaded_bytes, d.total_bytes))
  ELSE IF d.total_bytes_estimate # 0
    THEN Min(DownloadCap, Percent(d.downloaded_bytes, d.total_bytes_estimate))
  ELSE cur

\* line 251: f"Speed: {format_size(speed)}/s"; the rates sampled are below 1024.
SpeedMessage(speed) == "Speed: " \o ToString(speed) \o ".00 B/s"

\* A hook that writes the rate message whatever the rate is.
HookMessageAlways(d, cur) == SpeedMessage(d.speed)

\* lines 249-251: the message after a 'downloading' sample.
HookMessage(d, cur) == IF d.speed # 0 THEN SpeedMessage(d.speed) ELSE cur

\* ydl.download calls the hook (line 276) with a sample d, in the worker
\* thread; lines 230-231: if download_id not in active_downloads: return
download_progress_hook(j, d) ==
  /\ pc[j] = "w324"
  /\ nsamp[j] < MaxSamples
  /\ nsamp' = [nsamp EXCEPT ![j] = @ + 1]
  /\ IF active_downloads[jid[j]] = NoJob
       THEN UNCHANGED <<pc, hd>>
       ELSE Goto(j, "h233") /\ hd' = [hd EXCEPT ![j] = d]
  /\ UNCHANGED <<active_downloads, obj, termAt, wobj, werr, wdied, tmp, hobj, disk, gvars>>
  /\ OthersUnchanged

\* line 233: progress = active_downloads[download_id], then the branch on
\* d['status'] (lines 235, 253). When the record was removed since line 230 the
\* lookup raises KeyError inside ydl.download, which ends the download: the
\* exception reaches the worker, or yt-dlp (ignoreerrors) reports it and
\* download returns without an output file.
H233(j) ==
  /\ pc[j] = "h233"
  /\ IF active_downloads[jid[j]] # NoJob
       THEN /\ hobj' = [hobj EXCEPT ![j] = active_downloads[jid[j]]]
            /\ Goto(j, IF hd[j].status = "downloading" THEN "h236" ELSE "h254")
            /\ UNCHANGED <<hd, werr, errSrc, dlErr>>
       ELSE /\ hd' = [hd EXCEPT ![j] = NoSample]
            /\ UNCHANGED hobj
            /\ \/ /\ Raise(j, KeyErr, "download")
                  /\ dlErr' = [dlErr EXCEPT ![j] = Append(@, KeyErr)]
               \/ /\ Raise(j, NoFileErr, "download")
                  /\ dlErr' = [dlErr EXCEPT ![j] = Append(@, NoFileErr)]
  /\ UNCHANGED <<active_downloads, obj, termAt, wobj, wdied, tmp, nsamp, disk,
                 cancelDl, dlOk, dlAttempts, everCompleted>>
  /\ OthersUnchanged

\* A hook step that changes the hook's record and moves on.
HStep(j, from, to) ==
  /\ pc[j] = from
  /\ Goto(j, to)
  /\ hd' = [hd EXCEPT ![j] = IF to = "w324" THEN NoSample ELSE @]
  /\ UNCHANGED <<active_downloads, wobj, werr, wdied, tmp, hobj, nsamp, disk, gvars>>
  /\ OthersUnchanged

\* line 236: progress.status = "downloading"
H236(j) == HStep(j, "h236", "h240") /\ SetStatus(hobj[j], "downloading")

\* lines 240-247: progress.progress = min(90, percent), when a total is known
H240(j) ==
  /\ HStep(j, "h240", "h249")
  /\ SetField(hobj[j], "progress", HookProgress(hd[j], obj[hobj[j]].progress))

\* lines 249-251: progress.message = f"Speed: ...", when the rate is known
H249(j) ==
  /\ HStep(j, "h249", "w324")
  /\ SetField(hobj[j], "message", HookMessage(hd[j], obj[hobj[j]].message))

\* line 254: progress.status = "processing"
H254(j) == HStep(j, "h254", "h256") /\ SetStatus(hobj[j], "processing")

\* line 256: progress.progress = 95
H256(j) == HStep(j, "h256", "h257") /\ SetField(hobj[j], "progress", FinishedProgress)

\* line 257: progress.message = "Download complete, finalizing..."
H257(j) ==
  /\ HStep(j, "h257", "w324")
  /\ SetField(hobj[j], "message", "Download complete, finalizing...")

\* lines 324-329: ydl.download([url]) returns. The output file is in the
\* temporary directory (the transfer succeeded), or it is not and line 329
\* raises "No video file found after download".
DownloadReturn(j, file) ==
  /\ pc[j] = "w324"
  /\ tmp' = [tmp EXCEPT ![j] = IF file THEN "file" ELSE "empty"]
  /\ dlOk' = [dlOk EXCEPT ![j] = @ \/ (file /\ cancelDl[j])]
  /\ IF file
       THEN Goto(j, "w340") /\ UNCHANGED <<werr, errSrc, dlErr>>
       ELSE /\ Raise(j, NoFileErr, "download")
            /\ dlErr' = [dlErr EXCEPT ![j] = Append(@, NoFileErr)]
  /\ UNCHANGED <<active_downloads, obj, termAt, wobj, wdied, hd, hobj, nsamp, disk,
                 cancelDl, dlAttempts, everCompleted>>
  /\ OthersUnchanged

\* DownloadRaise as a worker with a retry budget of three attempts would do it:
\* the failed download is started again until the third attempt has failed.
DownloadRaiseRetry(j, e) ==
  /\ pc[j] = "w324"
  /\ dlErr' = [dlErr EXCEPT ![j] = Append(@, e)]
  /\ IF dlAttempts[j] < 3
       THEN /\ dlAttempts' = [dlAttempts EXCEPT ![j] = @ + 1]
            /\ UNCHANGED <<pc, werr, errSrc>>
       ELSE Raise(j, e, "download") /\ UNCHANGED dlAttempts
  /\ UNCHANGED <<active_downloads, obj, termAt, wobj, wdied, tmp, hd, hobj, nsamp, disk,
                 cancelDl, dlOk, everCompleted>>
  /\ OthersUnchanged

\* line 324: ydl.download([url]) raises; there is no second attempt.
DownloadRaise(j, e) ==
  /\ pc[j] = "w324"
  /\ Raise(j, e, "download")
  /\ dlErr' = [dlErr EXCEPT ![j] = Append(@, e)]
  /\ UNCHANGED <<active_downloads, obj, termAt, wobj, wdied, tmp, hd, hobj, nsamp, disk,
                 cancelDl, dlOk, dlAttempts, everCompleted>>
  /\ OthersUnchanged

\* line 340: shutil.move(source_file, final_path); it is not retried
W340(j) ==
  /\ pc[j] = "w340"
  /\ \/ /\ tmp' = [tmp EXCEPT ![j] = "empty"]
        /\ disk' = disk \cup {jid[j]}
        /\ Goto(j, "w343")
        /\ UNCHANGED <<werr, errSrc>>
     \/ /\ \E e \in Errs : Raise(j, e, "move")
        /\ UNCHANGED <<tmp, disk>>
  /\ UNCHANGED <<active_downloads, obj, termAt, wobj, wdied, hd, hobj, nsamp,
                 cancelDl, dlOk, dlAttempts, dlErr, everCompleted>>
  /\ OthersUnchanged

\* line 343: progress.status = "completed", written without a look at the
\* current status
W343(j) ==
  /\ pc[j] = "w343"
  /\ SetStatus(wobj[j], "completed")
  /\ everCompleted' = [everCompleted EXCEPT ![j] = TRUE]
  /\ Goto(j, "w344")
  /\ UNCHANGED <<active_downloads, wobj, werr, wdied, tmp, hd, hobj, nsamp, disk,
                 cancelDl, dlOk, dlAttempts, dlErr, errSrc>>
  /\ OthersUnchanged

\* line 344: progress.progress = 100
W344(j) == WWrite(j, "w344", "progress", 100, "w346")

\* line 346: progress.message = "Video ready for download"
W346(j) == WWrite(j, "w346", "message", "Video ready for download", "w347")

\* A worker that leaves file_path unset.
W347NoPath(j) == WWrite(j, "w347", "file_path", None, "w348")

\* line 347: progress.file_path = final_path (a path is named by its job id)
W347(j) == WWrite(j, "w347", "file_path", jid[j], "w348")

\* line 348: os.path.getsize(final_path) fails when the file is gone, and may
\* fail for other reasons
W348(j) ==
  /\ pc[j] = "w348"
  /\ \/ /\ jid[j] \in disk
        /\ Goto(j, "w351")
        /\ UNCHANGED <<werr, errSrc>>
     \/ \E e \in Errs : Raise(j, e, "size")
  /\ UNCHANGED <<active_downloads, obj, termAt, wobj, wdied, tmp, hd, hobj, nsamp, disk,
                 cancelDl, dlOk, dlAttempts, dlErr, everCompleted>>
  /\ OthersUnchanged

\* line 351: shutil.rmtree(temp_dir)
W351(j) ==
  /\ pc[j] = "w351"
  /\ \/ /\ tmp' = [tmp EXCEPT ![j] = "removed"]
        /\ Goto(j, "w372")
        /\ UNCHANGED <<werr, errSrc>>
     \/ /\ \E e \in Errs : Raise(j, e, "rmtree")
        /\ UNCHANGED tmp
  /\ UNCHANGED <<active_downloads, obj, termAt, wobj, wdied, hd, hobj, nsamp, disk,
                 cancelDl, dlOk, dlAttempts, dlErr, everCompleted>>
  /\ OthersUnchanged

\* A step of the except clause (lines 354-357). Each statement looks the record
\* up again; when the record is gone line 354 skips the clause, and a later
\* line raises KeyError out of the clause: the finally block runs and the
\* thread ends with the exception.
WExcept(j, from, to) ==
  /\ pc[j] = from
  /\ IF active_downloads[jid[j]] # NoJob
       THEN Goto(j, to) /\ UNCHANGED wdied
       ELSE /\ Goto(j, "w372")
            /\ wdied' = [wdied EXCEPT ![j] = from # "w354"]
  /\ UNCHANGED <<active_downloads, wobj, werr, tmp, hd, hobj, nsamp, disk, gvars>>
  /\ OthersUnchanged

Rec(id) == active_downloads[id]

\* line 354: if download_id in active_downloads
W354(j) == WExcept(j, "w354", "w355") /\ UNCHANGED <<obj, termAt>>

\* line 355: active_downloads[download_id].status = "error"
W355(j) ==
  /\ WExcept(j, "w355", "w356")
  /\ IF Rec(jid[j]) # NoJob THEN SetStatus(Rec(jid[j]), "error")
                            ELSE UNCHANGED <<obj, termAt>>

\* line 356: active_downloads[download_id].error = str(e)
W356(j) ==
  /\ WExcept(j, "w356", "w357")
  /\ IF Rec(jid[j]) # NoJob THEN SetField(Rec(jid[j]), "error", werr[j])
                            ELSE UNCHANGED <<obj, termAt>>

\* line 357: active_downloads[download_id].message = f"Error: {str(e)}"
W357(j) ==
  /\ WExcept(j, "w357", "w372")
  /\ IF Rec(jid[j]) # NoJob THEN SetField(Rec(jid[j]), "message", "Error: " \o werr[j])
                            ELSE UNCHANGED <<obj, termAt>>

\* line 372: threading.Thread(target=cleanup).start(), on every exit path; the
\* new thread begins with time.sleep(300) (line 362).
W372(j) ==
  /\ pc[j] = "w372"
  /\ Goto(j, "done")
  /\ cpc' = [cpc EXCEPT ![j] = "c362"]
  /\ cwake' = [cwake EXCEPT ![j] = now + CleanupDelay]
  /\ UNCHANGED <<now, active_downloads, obj, termAt, nsub, jid, wobj, werr, wdied, tmp,
                 hd, hobj, nsamp, disk, cobj, cdied, kvars, svars, gvars, evictedBy, rvars, fvars>>

\* ------------------------------------------------- deferred cleanup thread
CFrame ==
  UNCHANGED <<now, obj, termAt, nsub, jid, wvars, cwake, kvars, svars, gvars, rvars, fvars>>

\* lines 362-363: time.sleep(300) has returned; if download_id in
\* active_downloads
C362(j) ==
  /\ cpc[j] = "c362"
  /\ now >= cwake[j]
  /\ cpc' = [cpc EXCEPT ![j] = IF active_downloads[jid[j]] # NoJob THEN "c364" ELSE "done"]
  /\ UNCHANGED <<active_downloads, disk, cobj, cdied, evictedBy>>
  /\ CFrame

\* line 364: progress = active_downloads[download_id]; KeyError when the record
\* was removed since line 363
C364(j) ==
  /\ cpc[j] = "c364"
  /\ IF active_downloads[jid[j]] # NoJob
       THEN /\ cobj' = [cobj EXCEPT ![j] = active_downloads[jid[j]]]
            /\ cpc' = [cpc EXCEPT ![j] = "c365"]
            /\ UNCHANGED cdied
       ELSE /\ cdied' = [cdied EXCEPT ![j] = TRUE]
            /\ cpc' = [cpc EXCEPT ![j] = "done"]
            /\ UNCHANGED cobj
  /\ UNCHANGED <<active_downloads, disk, evictedBy>>
  /\ CFrame

\* line 365: if progress.file_path and os.path.exists(progress.file_path)
C365(j) ==
  /\ cpc[j] = "c365"
  /\ cpc' = [cpc EXCEPT ![j] =
               IF obj[cobj[j]].file_path # None /\ obj[cobj[j]].file_path \in disk
               THEN "c367" ELSE "c370"]
  /\ UNCHANGED <<active_downloads, disk, cobj, cdied, evictedBy>>
  /\ CFrame

\* lines 366-369: os.remove(progress.file_path), any exception swallowed
C367(j) ==
  /\ cpc[j] = "c367"
  /\ disk' = disk \ {obj[cobj[j]].file_path}
  /\ cpc' = [cpc EXCEPT ![j] = "c370"]
  /\ UNCHANGED <<active_downloads, cobj, cdied, evictedBy>>
  /\ CFrame

\* line 370: del active_downloads[download_id]; KeyError when the record was
\* removed since line 363
C370(j) ==
  /\ cpc[j] = "c370"
  /\ cpc' = [cpc EXCEPT ![j] = "done"]
  /\ IF active_downloads[jid[j]] # NoJob
       THEN /\ evictedBy' = [evictedBy EXCEPT ![active_downloads[jid[j]]] = "timer"]
            /\ active_downloads' = [active_downloads EXCEPT ![jid[j]] = NoJob]
            /\ UNCHANGED cdied
       ELSE /\ cdied' = [cdied EXCEPT ![j] = TRUE]
            /\ UNCHANGED <<active_downloads, evictedBy>>
  /\ UNCHANGED <<disk, cobj>>
  /\ CFrame

\* ---------------------------------------------------------------- CancelJob
KFrame ==
  UNCHANGED <<now, active_downloads, nsub, jid, wvars, disk, cvars, svars, dlOk,
              dlAttempts, dlErr, errSrc, everCompleted, evictedBy, rvars, fvars>>

\* line 469: if download_id in active_downloads, else the 404 of line 474
cancel_download(id) ==
  /\ kpc = "idle"
  /\ ncancel < MaxCancels
  /\ ncancel' = ncancel + 1
  /\ IF active_downloads[id] # NoJob
       THEN kpc' = "k470" /\ kid' = id /\ kres' = "none"
       ELSE kpc' = "idle" /\ kid' = NoId /\ kres' = "not found"
  /\ UNCHANGED <<obj, termAt, cancelDl>>
  /\ KFrame

\* line 470: active_downloads[download_id].status = "cancelled", whatever the
\* status is; KeyError (a 500 response) when the record was removed meanwhile
K470 ==
  /\ kpc = "k470"
  /\ IF Rec(kid) # NoJob
       THEN /\ SetStatus(Rec(kid), "cancelled")
            /\ cancelDl' = [cancelDl EXCEPT ![Rec(kid)] =
                              @ \/ obj[Rec(kid)].status = "downloading"]
            /\ kpc' = "k471"
            /\ UNCHANGED <<kid, kres>>
       ELSE /\ kpc' = "idle" /\ kid' = NoId /\ kres' = "error"
            /\ UNCHANGED <<obj, termAt, cancelDl>>
  /\ UNCHANGED ncancel
  /\ KFrame

\* lines 471-472: active_downloads[download_id].message = "Download cancelled"
K471 ==
  /\ kpc = "k471"
  /\ IF Rec(kid) # NoJob
       THEN SetField(Rec(kid), "message", "Download cancelled") /\ kres' = "ok"
       ELSE UNCHANGED <<obj, termAt>> /\ kres' = "error"
  /\ kpc' = "idle"
  /\ kid' = NoId
  /\ UNCHANGED <<ncancel, cancelDl>>
  /\ KFrame

\* -------------------------------------------------------------- SweepExpired
SFrame ==
  UNCHANGED <<now, obj, termAt, nsub, jid, wvars, cvars, kvars, gvars, rvars, fvars>>

RECURSIVE KeysFrom(_)
\* list(active_downloads.keys()): the live identifiers in insertion order, which
\* is the order the identifiers were handed out in
KeysFrom(i) ==
  IF i > NJobs THEN <<>>
  ELSE IF jid[i] # NoId /\ active_downloads[jid[i]] # NoJob
         THEN <<jid[i]>> \o KeysFrom(i + 1)
         ELSE KeysFrom(i + 1)

\* The response of /cleanup
SweepDone(result) ==
  /\ spc' = "idle"
  /\ sres' = result
  /\ skeys' = <<>>
  /\ sid' = NoId
  /\ sobj' = NoJob

\* lines 491-494: now = time.time(); cleaned = 0; the key list is copied
cleanup ==
  /\ spc = "idle"
  /\ nsweep < MaxSweeps
  /\ nsweep' = nsweep + 1
  /\ snow' = now
  /\ cleaned' = 0
  /\ skeys' = KeysFrom(1)
  /\ spc' = "s494"
  /\ sres' = "none"
  /\ UNCHANGED <<active_downloads, disk, sid, sobj, evictedBy>>
  /\ SFrame

\* lines 494-495: the next key of the copied list and progress =
\* active_downloads[download_id], with KeyError, caught at line 513, when the
\* record was removed since the copy; after the last key, the response of lines
\* 507-511
S494 ==
  /\ spc = "s494"
  /\ IF skeys = <<>>
       THEN SweepDone("ok")
       ELSE IF Rec(Head(skeys)) # NoJob
         THEN /\ sid' = Head(skeys)
              /\ skeys' = Tail(skeys)
              /\ sobj' = Rec(Head(skeys))
              /\ spc' = "s498"
              /\ UNCHANGED sres
         ELSE SweepDone("error")
  /\ UNCHANGED <<active_downloads, disk, snow, cleaned, nsweep, evictedBy>>
  /\ SFrame

\* line 498: the age test of the sweep, on start_time
SweepEligible(r, t) == r.start_time # None /\ t - r.start_time > SweepThreshold

S498 ==
  /\ spc = "s498"
  /\ spc' = IF SweepEligible(obj[sobj], snow) THEN "s499" ELSE "s494"
  /\ UNCHANGED <<active_downloads, disk, skeys, sid, sobj, snow, cleaned, nsweep, sres,
                 evictedBy>>
  /\ SFrame

\* line 499: if progress.file_path and os.path.exists(progress.file_path)
S499 ==
  /\ spc = "s499"
  /\ spc' = IF obj[sobj].file_path # None /\ obj[sobj].file_path \in disk
            THEN "s501" ELSE "s504"
  /\ UNCHANGED <<active_downloads, disk, skeys, sid, sobj, snow, cleaned, nsweep, sres,
                 evictedBy>>
  /\ SFrame

\* lines 500-503: os.remove(progress.file_path), any exception swallowed
S501 ==
  /\ spc = "s501"
  /\ disk' = disk \ {obj[sobj].file_path}
  /\ spc' = "s504"
  /\ UNCHANGED <<active_downloads, skeys, sid, sobj, snow, cleaned, nsweep, sres,
                 evictedBy>>
  /\ SFrame

\* lines 504-505: del active_downloads[download_id]; cleaned += 1
S504 ==
  /\ spc = "s504"
  /\ IF Rec(sid) # NoJob
       THEN /\ evictedBy' = [evictedBy EXCEPT ![Rec(sid)] = "sweep"]
            /\ active_downloads' = [active_downloads EXCEPT ![sid] = NoJob]
            /\ cleaned' = cleaned + 1
            /\ spc' = "s494"
            /\ UNCHANGED <<skeys, sid, sobj, sres>>
       ELSE /\ SweepDone("error")
            /\ UNCHANGED <<active_downloads, cleaned, evictedBy>>
  /\ UNCHANGED <<disk, snow, nsweep>>
  /\ SFrame

\* -------------------------------------------------------------------- clock
Tick ==
  /\ now < MaxTicks * TimeStep
  /\ now' = now + TimeStep
  /\ UNCHANGED <<active_downloads, obj, nsub, jid, wvars, disk, cvars, kvars, svars,
                 termAt, gvars, evictedBy, rvars, fvars>>

\* ------------------------------------------------------------ FetchArtifact
\* get_file reads the registry, the record and the download folder and writes
\* nothing but its response.
FFrame ==
  UNCHANGED <<now, active_downloads, obj, termAt, nsub, jid, wvars, disk, cvars,
              kvars, svars, gvars, evictedBy, rvars>>

\* A response ends the request.
FetchDone(result) ==
  /\ fres' = result
  /\ fpc' = "idle"
  /\ fid' = NoId
  /\ fobj' = NoJob

\* line 447: if download_id not in active_downloads: 404
get_file(id) ==
  /\ fpc = "idle"
  /\ nfetch < MaxFetches
  /\ nfetch' = nfetch + 1
  /\ IF active_downloads[id] # NoJob
       THEN fpc' = "f450" /\ fid' = id /\ fres' = "none" /\ UNCHANGED fobj
       ELSE FetchDone("not found")
  /\ FFrame

\* line 450: progress = active_downloads[download_id]; KeyError (a 500
\* response) when the record was removed meanwhile
F450 ==
  /\ fpc = "f450"
  /\ IF active_downloads[fid] # NoJob
       THEN fpc' = "f452" /\ fobj' = active_downloads[fid] /\ UNCHANGED <<fid, fres>>
       ELSE FetchDone("error")
  /\ UNCHANGED nfetch
  /\ FFrame

\* A get_file that does not look at the status.
F452Any ==
  /\ fpc = "f452"
  /\ fpc' = "f452p" /\ UNCHANGED <<fid, fobj, fres>>
  /\ UNCHANGED nfetch
  /\ FFrame

\* line 452, left operand: progress.status != "completed": 400
F452 ==
  /\ fpc = "f452"
  /\ IF obj[fobj].status = "completed"
       THEN fpc' = "f452p" /\ UNCHANGED <<fid, fobj, fres>>
       ELSE FetchDone("not ready")
  /\ UNCHANGED nfetch
  /\ FFrame

\* line 452, right operand: not progress.file_path: 400
F452p ==
  /\ fpc = "f452p"
  /\ IF obj[fobj].file_path # None
       THEN fpc' = "f455" /\ UNCHANGED <<fid, fobj, fres>>
       ELSE FetchDone("not ready")
  /\ UNCHANGED nfetch
  /\ FFrame

\* line 455: if not os.path.exists(progress.file_path): 404
F455 ==
  /\ fpc = "f455"
  /\ IF obj[fobj].file_path \in disk
       THEN fpc' = "f459" /\ UNCHANGED <<fid, fobj, fres>>
       ELSE FetchDone("file not found")
  /\ UNCHANGED nfetch
  /\ FFrame

\* lines 459-463: send_file opens the file; it raises (a 500 response) when the
\* file was removed meanwhile
F459 ==
  /\ fpc = "f459"
  /\ IF obj[fobj].file_path \in disk
       THEN FetchDone("sent")
       ELSE FetchDone("error")
  /\ UNCHANGED nfetch
  /\ FFrame

\* ------------------------------------------------- get_video_info_with_retry
\* What extract_info does under each entry of configs_to_try: it returns the
\* metadata ("ok") or raises an exception with the given message.
Outcomes == {"ok"} \cup Errs
NoResult == [kind |-> "none", value |-> "", config |-> 0]

RFrame ==
  UNCHANGED <<now, active_downloads, obj, nsub, jid, wvars, disk, cvars, kvars, svars,
              termAt, gvars, evictedBy, routcomes, fvars>>

\* A loop that does not sleep before its first attempt.
R95NoFirstSleep ==
  /\ rpc = "r95"
  /\ rslept' = IF rattempt = 0 THEN rslept ELSE rslept + 1
  /\ rpc' = "r122"
  /\ UNCHANGED <<rexc, rattempt, rresult, rlog>>
  /\ RFrame

\* line 95: time.sleep(random.uniform(0.5, 2)), at the start of every attempt
R95 ==
  /\ rpc = "r95"
  /\ rslept' = rslept + 1
  /\ rpc' = "r122"
  /\ UNCHANGED <<rexc, rattempt, rresult, rlog>>
  /\ RFrame

\* lines 121-123: extract_info under configs_to_try[attempt]; return info
R122 ==
  /\ rpc = "r122"
  /\ rlog' = Append(rlog, rattempt)
  /\ IF routcomes[rattempt + 1] = "ok"
       THEN /\ rresult' = [kind |-> "return", value |-> "info", config |-> rattempt]
            /\ rpc' = "done"
            /\ UNCHANGED rexc
       ELSE /\ rexc' = routcomes[rattempt + 1]
            /\ rpc' = "r126"
            /\ UNCHANGED rresult
  /\ UNCHANGED <<rattempt, rslept>>
  /\ RFrame

\* HasNextConfig with the bound off by one: the loop gives up before the last
\* configuration.
HasNextConfigShort(attempt) == attempt < NumConfigs - 2

\* line 126: whether a failed attempt is followed by another one
HasNextConfig(attempt) == attempt < NumConfigs - 1

\* lines 125-130: continue with the next configuration, or raise e
R126 ==
  /\ rpc = "r126"
  /\ IF HasNextConfig(rattempt)
       THEN /\ rattempt' = rattempt + 1
            /\ rpc' = "r95"
            /\ UNCHANGED rresult
       ELSE /\ rresult' = [kind |-> "raise", value |-> rexc, config |-> rattempt]
            /\ rpc' = "done"
            /\ UNCHANGED rattempt
  /\ UNCHANGED <<rexc, rslept, rlog>>
  /\ RFrame

\* ------------------------------------------------------------ specifications
InitJobs ==
  /\ now = 0
  /\ active_downloads = [i \in Ids |-> NoJob]
  /\ obj = [j \in Jobs |-> DownloadProgress]
  /\ nsub = 0
  /\ jid = [j \in Jobs |-> NoId]
  /\ pc = [j \in Jobs |-> "idle"]
  /\ wobj = [j \in Jobs |-> NoJob]
  /\ werr = [j \in Jobs |-> NoErr]
  /\ wdied = [j \in Jobs |-> FALSE]
  /\ tmp = [j \in Jobs |-> "none"]
  /\ disk = {}
  /\ hd = [j \in Jobs |-> NoSample]
  /\ hobj = [j \in Jobs |-> NoJob]
  /\ nsamp = [j \in Jobs |-> 0]
  /\ cpc = [j \in Jobs |-> "idle"]
  /\ cwake = [j \in Jobs |-> 0]
  /\ cobj = [j \in Jobs |-> NoJob]
  /\ cdied = [j \in Jobs |-> FALSE]
  /\ kpc = "idle" /\ kid = NoId /\ ncancel = 0 /\ kres = "none"
  /\ spc = "idle" /\ skeys = <<>> /\ sid = NoId /\ sobj = NoJob /\ snow = 0
  /\ cleaned = 0 /\ nsweep = 0 /\ sres = "none"
  /\ termAt = [j \in Jobs |-> None]
  /\ cancelDl = [j \in Jobs |-> FALSE]
  /\ dlOk = [j \in Jobs |-> FALSE]
  /\ dlAttempts = [j \in Jobs |-> 0]
  /\ dlErr = [j \in Jobs |-> <<>>]
  /\ errSrc = [j \in Jobs |-> "none"]
  /\ everCompleted = [j \in Jobs |-> FALSE]
  /\ evictedBy = [j \in Jobs |-> ""]
  /\ fpc = "idle" /\ fid = NoId /\ fobj = NoJob /\ nfetch = 0 /\ fres = "none"

InitRetryIdle ==
  /\ rpc = "idle" /\ rexc = NoErr /\ rattempt = 0 /\ rslept = 0
  /\ routcomes = [i \in 1..NumConfigs |-> "ok"]
  /\ rresult = NoResult /\ rlog = <<>>

Init == InitJobs /\ InitRetryIdle

\* The worker's own statements.
WorkerBody(j) ==
  \/ W262(j) \/ W263(j) \/ W264(j) \/ W266(j) \/ W267(j)
  \/ W313(j) \/ W314(j) \/ W320(j) \/ W321(j)
  \/ \E file \in BOOLEAN : DownloadReturn(j, file)
  \/ \E e \in Errs : DownloadRaise(j, e)
  \/ W340(j) \/ W343(j) \/ W344(j) \/ W346(j) \/ W347(j)
  \/ W348(j) \/ W351(j)
  \/ W354(j) \/ W355(j) \/ W356(j) \/ W357(j) \/ W372(j)

\* The progress hook, called by the downloader on the worker's thread.
Hook(j) ==
  \/ \E d \in Samples : download_progress_hook(j, d)
  \/ H233(j) \/ H236(j) \/ H240(j) \/ H249(j)
  \/ H254(j) \/ H256(j) \/ H257(j)

Worker(j) == WorkerBody(j) \/ Hook(j)

Timer(j) == C362(j) \/ C364(j) \/ C365(j) \/ C367(j) \/ C370(j)

Cancel == (\E id \in Ids : cancel_download(id)) \/ K470 \/ K471

Sweep == cleanup \/ S494 \/ S498 \/ S499 \/ S501 \/ S504

Next ==
  \/ \E id \in Ids : start_download(id)
  \/ \E j \in Jobs : Worker(j)
  \/ \E j \in Jobs : Timer(j)
  \/ Cancel
  \/ Sweep
  \/ Tick

Spec == Init /\ [][Next]_vars

\* The retry loop on its own: one call of get_video_info_with_retry for every
\* behaviour of extract_info under the three configurations.
InitRetry ==
  /\ InitJobs
  /\ rpc = "r95" /\ rexc = NoErr /\ rattempt = 0 /\ rslept = 0
  /\ routcomes \in [1..NumConfigs -> Outcomes]
  /\ rresult = NoResult /\ rlog = <<>>

NextRetry == R95 \/ R122 \/ R126

SpecRetry == InitRetry /\ [][NextRetry]_vars

Fetch ==
  (\E id \in Ids : get_file(id)) \/ F450 \/ F452 \/ F452p \/ F455 \/ F459

\* The job lifecycle with /get_file requests and without /cleanup requests.
NextFetch ==
  \/ \E id \in Ids : start_download(id)
  \/ \E j \in Jobs : Worker(j)
  \/ \E j \in Jobs : Timer(j)
  \/ Cancel
  \/ Fetch
  \/ Tick

SpecFetch == Init /\ [][NextFetch]_vars

\* Submissions whose identifiers may collide, with downloads that report no
\* progress sample, and without /cancel and /cleanup requests.
NextCollide ==
  \/ \E id \in Ids : start_download_any(id)
  \/ \E j \in Jobs : WorkerBody(j)
  \/ \E j \in Jobs : Timer(j)
  \/ Tick

SpecCollide == Init /\ [][NextCollide]_vars

\* The happy path: metadata fetch, download and move succeed, the download
\* leaves a file, and no /cancel or /cleanup request arrives. The size
\* computation and the removal of the temporary directory may still fail. A
\* started thread keeps being scheduled, hence the weak fairness of the worker.
HappyWorker(j) == Worker(j) /\ errSrc'[j] \in {"none", "size", "rmtree"}

NextHappy ==
  \/ \E id \in Ids : start_download(id)
  \/ \E j \in Jobs : HappyWorker(j)
  \/ \E j \in Jobs : Timer(j)
  \/ Tick

SpecHappy ==
  Init /\ [][NextHappy]_vars /\ \A j \in Jobs : WF_vars(HappyWorker(j))

\* ================================================================== claims
Live(id) == active_downloads[id] # NoJob

\* A thread is between the status write that made record o terminal and the
\* message write that belongs to it (lines 343-346, 355-357, 470-471).
Entering(o) ==
  \/ kpc = "k471" /\ Rec(kid) = o
  \/ \E j \in Jobs : pc[j] \in {"w344", "w346"} /\ wobj[j] = o
  \/ \E j \in Jobs : pc[j] \in {"w356", "w357"} /\ Rec(jid[j]) = o

\* C1: once the state of a record is terminal (completed, error, cancelled) and
\* the writes that made it so are done, no later step of any thread changes its
\* state or its message.
C1_TerminalFrozen ==
  [][\A o \in Jobs :
       (obj[o].status \in Terminal /\ ~Entering(o))
         => /\ obj'[o].status = obj[o].status
            /\ obj'[o].message = obj[o].message]_vars

\* C2: when a cancel was written while the job was downloading, the transfer
\* afterwards reported success and no later step of the worker failed, the
\* job's state when its worker has finished is cancelled and its artifact is not
\* in the download folder.
C2_CancelWins ==
  \A j \in Jobs :
    (pc[j] = "done" /\ cancelDl[j] /\ dlOk[j] /\ errSrc[j] = "none")
      => (obj[j].status = "cancelled" /\ jid[j] \notin disk)

\* C3: the progress value of a record never decreases.
C3_ProgressMonotone ==
  [][\A o \in Jobs : obj'[o].progress >= obj[o].progress]_vars

\* C4: for every record in the registry, file_path is set if and only if the
\* state is completed.
C4_PathIffCompleted ==
  \A id \in Ids :
    Live(id) => ((obj[Rec(id)].file_path # None) <=> (obj[Rec(id)].status = "completed"))

\* C5: for every record in the registry, progress is 100 if and only if the
\* state is completed.
C5_FullIffCompleted ==
  \A id \in Ids :
    Live(id) => ((obj[Rec(id)].progress = 100) <=> (obj[Rec(id)].status = "completed"))

\* The transitions of the state table.
NonTerminal == {"pending", "starting", "fetching_metadata", "downloading", "processing"}
TransitionTable ==
  { <<"pending", "starting">>, <<"starting", "fetching_metadata">>,
    <<"fetching_metadata", "downloading">>, <<"fetching_metadata", "error">>,
    <<"downloading", "processing">>, <<"downloading", "error">>,
    <<"processing", "completed">>, <<"processing", "error">> }
  \cup { <<s, "cancelled">> : s \in NonTerminal }

\* C6: every change of the state of a record is a transition of the state
\* table.
C6_TableTransitions ==
  [][\A o \in Jobs :
       obj'[o].status # obj[o].status
         => <<obj[o].status, obj'[o].status>> \in TransitionTable]_vars

\* The first configuration under which extract_info succeeds, 0 when it fails
\* under all of them.
FirstOk ==
  IF \E i \in 1..NumConfigs : routcomes[i] = "ok"
    THEN CHOOSE i \in 1..NumConfigs :
           /\ routcomes[i] = "ok"
           /\ \A k \in 1..(i - 1) : routcomes[k] # "ok"
    ELSE 0

\* C7: when the retry loop has ended, it has returned the result of the first
\* successful attempt if one of the three attempts succeeds and raised nothing,
\* and otherwise it has raised the error of the third attempt.
C7_RetryResult ==
  rpc = "done" =>
    IF FirstOk # 0
      THEN rresult = [kind |-> "return", value |-> "info", config |-> FirstOk - 1]
      ELSE rresult = [kind |-> "raise", value |-> routcomes[NumConfigs],
                      config |-> NumConfigs - 1]

\* All three attempts failed, the first and the last with different errors, and
\* the loop has ended.
C7_Witness ==
  /\ rpc = "done"
  /\ FirstOk = 0
  /\ routcomes[1] # routcomes[NumConfigs]
  /\ rresult.kind = "raise"

\* The job's record is in state error because its download failed, and the
\* error is recorded.
DownloadError(j) ==
  /\ errSrc[j] = "download"
  /\ obj[j].status = "error"
  /\ obj[j].error # NoErr

C9_SweepOnlyOldTerminal ==
  [][\A o \in Jobs :
       (evictedBy[o] # "sweep" /\ evictedBy'[o] = "sweep")
         => /\ obj[o].status \in Terminal
            /\ termAt[o] # None
            /\ now - termAt[o] > SweepThreshold]_vars

\* C10: for every job that reached state completed and whose worker has
\* finished, once its deferred cleanup has run or a sweep has evicted it, its
\* record is not in the registry and its artifact is not in the download folder.
C10_Expired ==
  \A j \in Jobs :
    (everCompleted[j] /\ pc[j] = "done" /\ (cpc[j] = "done" \/ evictedBy[j] = "sweep"))
      => (~Live(jid[j]) /\ jid[j] \notin disk)

\* The record of job j shows the finished job.
Completed(j) ==
  /\ obj[j].status = "completed"
  /\ obj[j].progress = 100
  /\ obj[j].file_path # None

\* C11: on the happy path every submitted job eventually has state completed,
\* progress 100 and a set artifact path; and the submission has handed out a
\* non-empty identifier for every job whose worker exists, before the worker
\* took its first step.
C11_HappyPath ==
  /\ [](\A j \in Jobs : pc[j] # "idle" => jid[j] # NoId)
  /\ \A j \in Jobs : (pc[j] = "w262") ~> Completed(j)

\* A job is completed with its artifact in the download folder, after two hook
\* samples.
C11_Witness ==
  \E j \in Jobs : Completed(j) /\ jid[j] \in disk /\ nsamp[j] = MaxSamples

\* C12: when a step of a job's worker has failed, the worker ends with the
\* job's record in the registry, in state error, with the error and a message
\* recorded.
C12_FailureRecorded ==
  [][\A j \in Jobs :
       (pc[j] # "done" /\ pc'[j] = "done" /\ errSrc[j] # "none")
         => /\ Live(jid[j]) /\ Rec(jid[j]) = j
            /\ obj[j].status = "error"
            /\ obj[j].error # NoErr
            /\ obj[j].message # ""]_vars

\* A step of get_file.
FetchStep == fpc' # fpc \/ nfetch' # nfetch

C14_FreshKey ==
  [][\A id \in Ids :
       (active_downloads'[id] # NoJob /\ active_downloads'[id] # active_downloads[id])
         => active_downloads[id] = NoJob]_vars

\* C15: a step stores progress 100 in a job's record only when the job's
\* artifact is at its final path in the download folder; the value a
\* 'downloading' sample stores is at most 90; a 'finished' sample stores 95.
C15_ProgressCap ==
  [][\A j \in Jobs :
       /\ (obj'[j].progress = 100 /\ obj[j].progress # 100) => jid[j] \in disk
       /\ (pc[j] = "h240" /\ pc'[j] = "h249"
             /\ obj'[hobj[j]].progress # obj[hobj[j]].progress)
            => obj'[hobj[j]].progress <= DownloadCap
       /\ (pc[j] = "h256" /\ pc'[j] = "h257")
            => obj'[hobj[j]].progress = FinishedProgress]_vars

\* The hook has stored the cap for a sample that reports the whole total.
C15_Witness ==
  \E j \in Jobs :
    /\ pc[j] = "h249"
    /\ hd[j].total_bytes = SampleTotal /\ hd[j].downloaded_bytes = SampleTotal
    /\ obj[j].progress = DownloadCap

\* C16: when a worker that created its temporary directory has put its job
\* into state error and finished, the temporary directory is removed and no
\* file of the job is in the download folder.
C16_ErrorCleansUp ==
  \A j \in Jobs :
    (pc[j] = "done" /\ tmp[j] # "none" /\ errSrc[j] # "none"
       /\ obj[j].status = "error")
      => (tmp[j] = "removed" /\ jid[j] \notin disk)

\* C17: the deferred cleanup of a job exists exactly when its worker has
\* finished; it never ends with an uncaught exception, whenever the record was
\* removed; and when it has ended the record is not in the registry.
C17_DeferredCleanup ==
  \A j \in Jobs :
    /\ (pc[j] = "done") <=> (cpc[j] # "idle")
    /\ ~cdied[j]
    /\ cpc[j] = "done" => ~Live(jid[j])

\* C18: the attempts of the retry loop use the configurations in list order;
\* an attempt is made only when all attempts before it have failed; there are at
\* most three attempts; and every attempt, the first included, comes after a
\* sleep of its own.
C18_RetryOrder ==
  /\ \A i \in 1..Len(rlog) : rlog[i] = i - 1
  /\ \A i \in 1..(Len(rlog) - 1) : routcomes[i] # "ok"
  /\ Len(rlog) <= 3
  /\ rslept = Len(rlog) + (IF rpc = "r122" THEN 1 ELSE 0)

\* The loop has ended after three attempts and three sleeps, the last attempt
\* a success.
C18_Witness ==
  /\ rpc = "done"
  /\ rlog = <<0, 1, 2>>
  /\ rslept = 3
  /\ routcomes[NumConfigs] = "ok"

\* Worker j takes a step of a hook call for a 'downloading' sample.
DownloadingStep(j) ==
  /\ pc[j] \in {"h233", "h236", "h240", "h249"}
  /\ pc'[j] # pc[j]
  /\ hd[j].status = "downloading"

\* C19: no step of a hook call for a 'downloading' sample without a positive
\* total_bytes or total_bytes_estimate changes the progress of a record, and no
\* step of a hook call for a sample without a positive rate changes the message
\* of a record.
C19_HookFrame ==
  [][\A j \in Jobs :
       /\ (DownloadingStep(j) /\ hd[j].total_bytes = 0
             /\ hd[j].total_bytes_estimate = 0)
            => \A o \in Jobs : obj'[o].progress = obj[o].progress
       /\ (DownloadingStep(j) /\ hd[j].speed = 0)
            => \A o \in Jobs : obj'[o].message = obj[o].message]_vars

\* The hook is past its progress statement for a sample with no total and no
\* rate, and the progress is the one the worker stored before the download.
C19_Witness ==
  \E j \in Jobs :
    /\ pc[j] = "h249"
    /\ hd[j].total_bytes = 0 /\ hd[j].total_bytes_estimate = 0 /\ hd[j].speed = 0
    /\ obj[j].status = "downloading"
    /\ obj[j].progress = 15

\* C20: every file in the download folder is the file_path of a record in the
\* registry, or the file of a worker that has moved it and has not yet written
\* file_path.
C20_NoOrphan ==
  \A id \in disk :
    \/ Live(id) /\ obj[Rec(id)].file_path = id
    \/ \E j \in Jobs : jid[j] = id /\ pc[j] \in {"w343", "w344", "w346", "w347"}

\* C21: no /cleanup request ends with an error, whatever the deferred cleanups
\* and the workers do meanwhile; and the sweep counts a record exactly when it
\* removes one.
C21_SweepSafe ==
  /\ [](sres # "error")
  /\ [][(spc # "idle" /\ cleaned' # cleaned)
         <=> (\E o \in Jobs : evictedBy[o] # "sweep" /\ evictedBy'[o] = "sweep")]_vars

====
